---- MODULE Spec2Model ----
(***************************************************************************)
(* Model of compute_pagerank_inbound (src/PageRank.py): the construction   *)
(* of the sparse graph index from an edge list and the matrix-free         *)
(* PageRank iteration over it.                                             *)
(*                                                                         *)
(* Scores are 64-bit floats in the program.  The model computes them as    *)
(* exact rationals <<numerator, denominator>> (denominator > 0, lowest     *)
(* terms): every statement below about scores is a statement of exact      *)
(* arithmetic, and says nothing about rounding.                            *)
(***************************************************************************)
EXTENDS Integers, Sequences, FiniteSets, TLC

\* ------------------------------------------------------------------ bounds
MaxNode == 2
MaxEdges == 2
MaxIter == 3

\* ------------------------------------------------------------- rationals
\* The arithmetic is written as functions: a function is applied to the value
\* of its argument, computed once.
Abs(i) == IF i < 0 THEN -i ELSE i

GCD[a \in Nat, b \in Nat] == IF b = 0 THEN a ELSE GCD[b, a % b]

\* The representations of the rationals.
Q == Int \X Int

\* p/q in lowest terms with a positive denominator (q # 0).
Rat[p \in Int, q \in Int] ==
    LET g == GCD[Abs(p), Abs(q)]
        s == IF q < 0 THEN -1 ELSE 1
    IN  <<(s * p) \div g, (s * q) \div g>>

Zero == <<0, 1>>
One == <<1, 1>>

RAdd[x \in Q, y \in Q] ==
    LET gd == GCD[x[2], y[2]]
        lcm == (x[2] \div gd) * y[2]
    IN  Rat[x[1] * (lcm \div x[2]) + y[1] * (lcm \div y[2]), lcm]

RSub[x \in Q, y \in Q] == RAdd[x, <<-y[1], y[2]>>]

RMul[x \in Q, y \in Q] ==
    LET g1 == GCD[Abs(x[1]), y[2]]
        g2 == GCD[Abs(y[1]), x[2]]
    IN  Rat[(x[1] \div g1) * (y[1] \div g2), (x[2] \div g2) * (y[2] \div g1)]

\* x / k for an integer k # 0.
RDivInt[x \in Q, k \in Int] == RMul[x, Rat[1, k]]

RAbs[x \in Q] == <<Abs(x[1]), x[2]>>

RLess[x \in Q, y \in Q] == x[1] * y[2] < y[1] * x[2]

\* x <= y (the program only compares with <; the properties below use <=).
RLeq[x \in Q, y \in Q] == x[1] * y[2] <= y[1] * x[2]

\* The sum of the values of f over the keys S.
SumOver(f, S) ==
    LET sum[T \in SUBSET S] ==
            IF T = {} THEN Zero
            ELSE LET pick == CHOOSE c \in T : TRUE
                 IN  RAdd[f[pick], sum[T \ {pick}]]
    IN  sum[S]

\* sum(f.values()) for a dict f of rationals.
SumValues(f) == SumOver(f, DOMAIN f)

\* ----------------------------------------------------------------- inputs
Node == 1 .. MaxNode

\* The rows of edges.csv: any finite sequence of (FromNode, ToNode).
EdgeLists == UNION {[1 .. k -> Node \X Node] : k \in 0 .. MaxEdges}

\* Values of the damping parameter, inside and outside [0,1].
DampingValues == {<<0, 1>>, <<1, 2>>, <<1, 1>>, <<3, 2>>}

\* Values of the tol parameter.
TolValues == {<<0, 1>>, <<1, 4>>, <<1, 2>>}

\* Values of the max_iter parameter.
IterValues == 0 .. MaxIter

VARIABLES
    edges,          \* df_edges: the rows read from edges_file
    damping,        \* parameter damping
    max_iter,       \* parameter max_iter
    tol,            \* parameter tol
    pc,             \* position in compute_pagerank_inbound
    row,            \* index of the next row of df_edges.itertuples()
    all_nodes,      \* set of node ids
    n,              \* len(all_nodes)
    inbound_links,  \* defaultdict(list): its keys are DOMAIN inbound_links
    outdegree,      \* defaultdict(int): its keys are DOMAIN outdegree
    pagerank,       \* dict node -> score
    new_pagerank,   \* dict under construction in the current pass
    sum_pr,         \* sum of pagerank.values() at the start of the pass
    diff,           \* L1 variation of the last completed pass
    iteration       \* loop variable of range(max_iter); -1 before the loop

vars == <<edges, damping, max_iter, tol, pc, row, all_nodes, n, inbound_links,
          outdegree, pagerank, new_pagerank, sum_pr, diff, iteration>>

\* ------------------------------------------------------------ defaultdict
\* d[k] on a defaultdict: the value read ...
DictGet(d, k, default) == IF k \in DOMAIN d THEN d[k] ELSE default

\* ... and the dict afterwards: a missing key is inserted with the default.
DictTouch(d, k, default) == IF k \in DOMAIN d THEN d ELSE d @@ (k :> default)

\* d[k] = val
DictSet(d, k, val) == [x \in DOMAIN d \cup {k} |-> IF x = k THEN val ELSE d[x]]

\* ---------------------------------------------------------- index builder
NodeSetOf(es) ==
    {es[i][1] : i \in 1 .. Len(es)} \cup {es[i][2] : i \in 1 .. Len(es)}

\* A builder that counts the row under its target.
CountedTarget(from, to) == to

\* The dict key whose count line 35 increments for a row (src, tgt).
CountedNode(from, to) == from

Init ==
    /\ edges \in EdgeLists
    /\ damping \in DampingValues
    /\ max_iter \in IterValues
    /\ tol \in TolValues
    /\ pc = "nodes"
    /\ row = 1
    /\ all_nodes = {}
    /\ n = 0
    /\ inbound_links = <<>>
    /\ outdegree = <<>>
    /\ pagerank = <<>>
    /\ new_pagerank = <<>>
    /\ sum_pr = Zero
    /\ diff = Zero
    /\ iteration = -1

BuildNodeSet ==
    /\ pc = "nodes"
    /\ all_nodes' = NodeSetOf(edges)
    /\ n' = Cardinality(NodeSetOf(edges))
    /\ pc' = "build"
    /\ UNCHANGED <<edges, damping, max_iter, tol, row, inbound_links, outdegree,
                   pagerank, new_pagerank, sum_pr, diff, iteration>>

AddEdge ==
    /\ pc = "build"
    /\ row <= Len(edges)
    /\ LET src == edges[row][1]
           tgt == edges[row][2]
           cnt == CountedNode(src, tgt)
       IN  /\ inbound_links' =
                DictSet(inbound_links, tgt, Append(DictGet(inbound_links, tgt, <<>>), src))
           /\ outdegree' = DictSet(outdegree, cnt, DictGet(outdegree, cnt, 0) + 1)
    /\ row' = row + 1
    /\ UNCHANGED <<edges, damping, max_iter, tol, pc, all_nodes, n, pagerank,
                   new_pagerank, sum_pr, diff, iteration>>

\* ---------------------------------------------------------------- iterator
\* An initialisation that computes 1.0/n once, before the comprehension.
InitDividesEagerly(nodes, k) == k = 0

\* Does building {node: 1.0/n for node in all_nodes} divide by zero?
InitDivides(nodes, k) == nodes # {} /\ k = 0

InitPageRank ==
    /\ pc = "build"
    /\ row > Len(edges)
    /\ IF InitDivides(all_nodes, n)
       THEN /\ pc' = "error"
            /\ UNCHANGED pagerank
       ELSE /\ pagerank' = [node \in all_nodes |-> Rat[1, n]]
            /\ pc' = "for"
    /\ UNCHANGED <<edges, damping, max_iter, tol, row, all_nodes, n, inbound_links,
                   outdegree, new_pagerank, sum_pr, diff, iteration>>

\* range(max_iter) has a next item after the loop variable's value i.
HasNext(i, k) == i + 1 < k

ForHead ==
    /\ pc = "for"
    /\ IF HasNext(iteration, max_iter)
       THEN /\ iteration' = iteration + 1
            /\ new_pagerank' = <<>>
            /\ sum_pr' = SumValues(pagerank)
            /\ pc' = "node"
       ELSE /\ pc' = "done"
            /\ UNCHANGED <<iteration, new_pagerank, sum_pr>>
    /\ UNCHANGED <<edges, damping, max_iter, tol, row, all_nodes, n, inbound_links,
                   outdegree, pagerank, diff>>

\* A pass that updates in place: a score written in this pass is read back.
ReadRankInPlace(u) == IF u \in DOMAIN new_pagerank THEN new_pagerank[u] ELSE pagerank[u]

\* pagerank[u] as read on line 54.
ReadRank(u) == pagerank[u]

\* A contribution that is not divided by the out-degree.
DivisorOne(od, u) == 1

\* The divisor of line 54.
Divisor(od, u) == DictGet(od, u, 0)

\* The inner loop of lines 52-54 over the list lst, with outdegree dict od.
InSum(lst, od) ==
    LET acc[i \in 0 .. Len(lst)] ==
            IF i = 0 THEN Zero
            ELSE RAdd[acc[i - 1], RDivInt[ReadRank(lst[i]), Divisor(od, lst[i])]]
    IN  acc[Len(lst)]

\* Positions of lst whose node has a zero divisor on line 54.
ZeroDivisors(lst, od) == {i \in 1 .. Len(lst) : Divisor(od, lst[i]) = 0}

\* outdegree after reading outdegree[u] for the first k elements of lst.
TouchAll(od, lst, k) ==
    [u \in DOMAIN od \cup {lst[i] : i \in 1 .. k} |-> DictGet(od, u, 0)]

\* An update that does not divide the redistributed sum by n.
NewRankUndivided(d, total, k, in_sum) ==
    RAdd[RMul[RSub[One, d], total], RMul[d, in_sum]]

\* An update with the sign of the redistribution weight reversed: d - 1.
NewRankReversed(d, total, k, in_sum) ==
    RAdd[RMul[RSub[d, One], RDivInt[total, k]], RMul[d, in_sum]]

\* Line 58.
NewRank(d, total, k, in_sum) ==
    RAdd[RMul[RSub[One, d], RDivInt[total, k]], RMul[d, in_sum]]

\* The node the loop of line 49 visits next: the nodes are small integers, which
\* a CPython set yields in ascending order.
NextNode(todo) == CHOOSE v \in todo : \A w \in todo : v <= w

\* One turn of the loop of line 49.
NodeStep ==
    /\ pc = "node"
    /\ all_nodes \ DOMAIN new_pagerank # {}
    /\ LET v == NextNode(all_nodes \ DOMAIN new_pagerank) IN
         LET srcs == DictGet(inbound_links, v, <<>>)
             bad == ZeroDivisors(srcs, outdegree)
         IN  /\ inbound_links' = DictTouch(inbound_links, v, <<>>)
             /\ IF bad # {}
                THEN /\ outdegree' =
                          TouchAll(outdegree, srcs, CHOOSE i \in bad : \A j \in bad : i <= j)
                     /\ pc' = "error"
                     /\ UNCHANGED new_pagerank
                ELSE IF n = 0
                THEN /\ outdegree' = TouchAll(outdegree, srcs, Len(srcs))
                     /\ pc' = "error"
                     /\ UNCHANGED new_pagerank
                ELSE /\ outdegree' = TouchAll(outdegree, srcs, Len(srcs))
                     /\ new_pagerank' =
                          DictSet(new_pagerank, v,
                                  NewRank(damping, sum_pr, n, InSum(srcs, outdegree)))
                     /\ pc' = "node"
    /\ UNCHANGED <<edges, damping, max_iter, tol, row, all_nodes, n, pagerank,
                   sum_pr, diff, iteration>>

\* A variation that sums the signed differences, without abs().
L1Signed(f, g, nodes) == SumValues([v \in nodes |-> RSub[f[v], g[v]]])

\* Line 61: the L1 distance of two dicts over the node set.
L1(f, g, nodes) == SumValues([v \in nodes |-> RAbs[RSub[f[v], g[v]]]])

\* Lines 61-63, once the loop of line 49 is exhausted.
EndPass ==
    /\ pc = "node"
    /\ all_nodes \subseteq DOMAIN new_pagerank
    /\ diff' = L1(new_pagerank, pagerank, all_nodes)
    /\ pagerank' = new_pagerank
    /\ pc' = "check"
    /\ UNCHANGED <<edges, damping, max_iter, tol, row, all_nodes, n, inbound_links,
                   outdegree, new_pagerank, sum_pr, iteration>>

\* A stop test that also stops when the variation equals the tolerance.
ConvergedOrEqual(dif, t) == RLeq[dif, t]

\* Line 65.
Converged(dif, t) == RLess[dif, t]

Check ==
    /\ pc = "check"
    /\ pc' = IF Converged(diff, tol) THEN "done" ELSE "for"
    /\ UNCHANGED <<edges, damping, max_iter, tol, row, all_nodes, n, inbound_links,
                   outdegree, pagerank, new_pagerank, sum_pr, diff, iteration>>

Next == BuildNodeSet \/ AddEdge \/ InitPageRank \/ ForHead \/ NodeStep \/ EndPass \/ Check

Spec == Init /\ [][Next]_vars


\* ==================================================================== claims
\* The graph of the edge list, and PageRank's update on it, stated on the
\* edge list itself (not on the index the program builds from it).

EdgeCountFrom(u) == Cardinality({i \in 1 .. Len(edges) : edges[i][1] = u})

EdgesInto(v) == {i \in 1 .. Len(edges) : edges[i][2] = v}

GraphNodes == NodeSetOf(edges)

Uniform == [v \in GraphNodes |-> Rat[1, Cardinality(GraphNodes)]]

\* (1 - d) * (sum(pr) / n) + d * sum over edges (u, v) of pr[u] / out_degree(u)
UpdateOf[pr \in [GraphNodes -> Q]] ==
    [v \in GraphNodes |->
        RAdd[RMul[RSub[One, damping], RDivInt[SumValues(pr), Cardinality(GraphNodes)]],
             RMul[damping,
                  SumValues([i \in EdgesInto(v) |->
                      RDivInt[pr[edges[i][1]], EdgeCountFrom(edges[i][1])]])]]]

ValidDamping == RLeq[Zero, damping] /\ RLeq[damping, One]

\* C1: during a pass pagerank holds a score for every node and sum_pr is
\* their sum; the first pass starts from the uniform 1/n map; when a pass has
\* visited every node, every score of new_pagerank is the update formula
\* applied to pagerank, still the map the pass started from; and with
\* max_iter = 1 and tol = 0 the returned map is one application of the
\* formula to the uniform map.
C1_PassFromSnapshot ==
    /\ pc = "node" =>
          /\ DOMAIN pagerank = GraphNodes
          /\ sum_pr = SumValues(pagerank)
          /\ iteration = 0 => pagerank = Uniform
          /\ DOMAIN new_pagerank = GraphNodes => new_pagerank = UpdateOf[pagerank]
    /\ (pc = "done" /\ max_iter = 1 /\ tol = Zero) => pagerank = UpdateOf[Uniform]

\* A second pass over two nodes has written every score, from a snapshot that
\* is no longer uniform, and the scores differ from the snapshot.
C1_Witness ==
    /\ pc = "node"
    /\ iteration = 1
    /\ n = 2
    /\ DOMAIN new_pagerank = all_nodes
    /\ pagerank # Uniform
    /\ new_pagerank # pagerank

\* The L1 distance of two score maps over the graph's nodes.
Distance(f, g) == SumValues([v \in GraphNodes |-> RAbs[RSub[f[v], g[v]]]])

\* A sequence of score maps, extended by the update of its last map.
Extend[t \in Seq([GraphNodes -> Q])] == Append(t, UpdateOf[t[Len(t)]])

\* The uniform map followed by its first k updates: Iterates[k][j + 1] is the
\* map after j applications of the update.
Iterates[k \in Nat] == IF k = 0 THEN <<Uniform>> ELSE Extend[Iterates[k - 1]]

\* The passes of the sequence t of maps whose variation is strictly below tol.
ConvergedPasses(t) ==
    {k \in 1 .. Len(t) - 1 : RLess[Distance(t[k + 1], t[k]), tol]}

\* The pass the claim says is returned: the first converged one, or the last.
StopPass(t) ==
    IF ConvergedPasses(t) = {} THEN Len(t) - 1
    ELSE CHOOSE k \in ConvergedPasses(t) : \A j \in ConvergedPasses(t) : k <= j

C2_Result ==
    /\ iteration + 1 <= max_iter
    /\ (max_iter >= 1 /\ edges # <<>>) =>
          /\ pc # "error"
          /\ pc = "done" =>
                \E t \in {Iterates[max_iter]} :
                    /\ iteration + 1 = StopPass(t)
                    /\ pagerank = t[StopPass(t) + 1]

\* What is left to run, at most: the rows to accumulate, then for each pass
\* that the budget still allows its steps (the loop head, one step per node,
\* the variation, the test), then the return.
PassCost == Cardinality(GraphNodes) + 3

LoopBudget(i) == (max_iter - 1 - i) * PassCost + 1

Variant ==
    CASE pc = "nodes" -> Len(edges) + 2 + LoopBudget(-1)
      [] pc = "build" -> (Len(edges) - row + 1) + 1 + LoopBudget(-1)
      [] pc = "for" -> LoopBudget(iteration)
      [] pc = "node" ->
            Cardinality(all_nodes \ DOMAIN new_pagerank) + 2 + LoopBudget(iteration)
      [] pc = "check" -> 1 + LoopBudget(iteration)
      [] OTHER -> 0

\* C2: for a non-empty graph and max_iter >= 1 the function returns, without
\* error, the map of pass StopPass (the first pass of 1..max_iter with
\* diff < tol, or max_iter when there is none), having run exactly StopPass
\* passes, and at no point more than max_iter passes.  It terminates:
\* until it has returned a step is possible, and every step decreases
\* Variant, a natural number.
C2_StopsAtFirstConvergedPass ==
    /\ [](C2_Result)
    /\ [](Variant >= 0 /\ (pc # "done" => ENABLED Next))
    /\ [][Variant' < Variant]_vars

\* A run over two nodes with a budget of three passes returned after the
\* second pass, the first whose variation (not zero) is below the tolerance.
C2_Witness ==
    /\ pc = "done"
    /\ n = 2
    /\ max_iter = 3
    /\ iteration = 1
    /\ RLess[Zero, diff]
    /\ RLess[diff, tol]

\* A node with no outbound edge.
Dangling(u) == EdgeCountFrom(u) = 0

NoDangling == \A u \in GraphNodes : ~Dangling(u)

\* A pass has been completed and pagerank holds its result.
AfterAPass == iteration >= 0 /\ pc \in {"check", "for", "done"}

\* The sum is 1 after every completed pass, and in the map under construction
\* once a pass has written every node.
SumIsOneAfterPasses ==
    /\ AfterAPass => SumValues(pagerank) = One
    /\ (pc = "node" /\ DOMAIN new_pagerank = all_nodes) => SumValues(new_pagerank) = One

C4_ScoresNonNegative ==
    ValidDamping =>
        /\ \A v \in DOMAIN pagerank : RLeq[Zero, pagerank[v]]
        /\ \A v \in DOMAIN new_pagerank : RLeq[Zero, new_pagerank[v]]

\* The third pass has ended with one node at score exactly 0 and another
\* above 0.
C4_Witness ==
    /\ ValidDamping
    /\ pc = "check"
    /\ iteration = 2
    /\ \E v, w \in all_nodes : pagerank[v] = Zero /\ RLess[Zero, pagerank[w]]

\* C5: with damping in [0,1], when a pass has ended with diff < tol, one more
\* application of the update to the map it produced moves the scores by an
\* L1 distance that is again < tol.
C5_OneMorePassStaysBelowTol ==
    (ValidDamping /\ pc \in {"check", "done"} /\ iteration >= 0 /\ RLess[diff, tol]) =>
        RLess[Distance(UpdateOf[pagerank], pagerank), tol]

\* A pass over two nodes ended with 0 < diff < tol, and one more
\* application of the update still moves the scores.
C5_Witness ==
    /\ ValidDamping
    /\ pc = "done"
    /\ n = 2
    /\ RLess[Zero, diff]
    /\ RLess[diff, tol]
    /\ RLess[Zero, Distance(UpdateOf[pagerank], pagerank)]

\* The number of passes the loop runs on an empty edge list.
EmptyGraphPasses ==
    IF max_iter <= 0 THEN 0 ELSE IF RLess[Zero, tol] THEN 1 ELSE max_iter

InvalidConfiguration == ~ValidDamping \/ max_iter <= 0 \/ RLeq[tol, Zero]

\* C7, as claimed: an invalid configuration is rejected before any pass
\* runs, and no score map is returned for it.
C7_InvalidConfigurationRejected ==
    InvalidConfiguration => (iteration = -1 /\ pc # "done")

\* C8, as claimed: once the edge rows are accumulated, no step of the
\* iteration changes all_nodes, inbound_links or outdegree, their sets of
\* keys included.
C8_IndexUnchangedByPasses ==
    [][(pc = "for" \/ pc = "node" \/ pc = "check") =>
          (all_nodes' = all_nodes /\ inbound_links' = inbound_links
                                  /\ outdegree' = outdegree)]_vars

\* C9: once the rows are accumulated, outdegree holds exactly the sources,
\* each with the number of edges it is the source of; every node listed in
\* an inbound list has an out-degree >= 1; and no pass divides by zero.
C9_OutdegreeCountsSources ==
    /\ pc # "error"
    /\ (pc # "nodes" /\ pc # "build") =>
          /\ DOMAIN outdegree = {edges[i][1] : i \in 1 .. Len(edges)}
          /\ \A u \in DOMAIN outdegree : outdegree[u] = EdgeCountFrom(u)
          /\ \A v \in DOMAIN inbound_links :
                \A i \in 1 .. Len(inbound_links[v]) :
                    /\ inbound_links[v][i] \in DOMAIN outdegree
                    /\ outdegree[inbound_links[v][i]] >= 1

\* A pass has run over an index built from a self-loop and a second edge
\* with the same source.
C9_Witness ==
    /\ pc = "check"
    /\ Len(edges) = 2
    /\ edges[1][1] = edges[1][2]
    /\ edges[2][1] = edges[1][1]
    /\ edges[2][2] # edges[1][1]
    /\ outdegree[edges[1][1]] = 2

\* Some dangling node holds a positive score in pagerank.
DanglingMass == \E u \in GraphNodes : Dangling(u) /\ RLess[Zero, pagerank[u]]

\* C10: with damping in [0,1], the sum of the scores never exceeds 1, the
\* sum a pass produces is <= the sum it started from, and it is strictly
\* smaller when damping > 0 and a dangling node held a positive score at the
\* start of the pass.
C10_MassNeverGrows ==
    ValidDamping =>
        /\ RLeq[SumValues(pagerank), One]
        /\ (pc = "node" /\ DOMAIN new_pagerank = all_nodes) =>
              /\ RLeq[SumValues(new_pagerank), SumValues(pagerank)]
              /\ (RLess[Zero, damping] /\ DanglingMass) =>
                    RLess[SumValues(new_pagerank), SumValues(pagerank)]

\* A third pass has written every score, with a dangling node holding a
\* positive score at its start and a sum below the sum it started from,
\* which was already below 1.
C10_Witness ==
    /\ ValidDamping
    /\ RLess[Zero, damping]
    /\ pc = "node"
    /\ iteration = 2
    /\ DOMAIN new_pagerank = all_nodes
    /\ DanglingMass
    /\ RLess[SumValues(pagerank), One]
    /\ RLess[SumValues(new_pagerank), SumValues(pagerank)]
====
